---- MODULE Spec2Model ----
(***************************************************************************)
(* Model of the ML inference layer of the SDN intrusion-detection system:  *)
(*   ml/inference.py  - preprocess_input, load_model_from_folder,          *)
(*                      predict_threat                                     *)
(*   ml/ml_service.py - load_model, initialize_app, the Flask handlers     *)
(*                      /predict, /predict/batch, /test, /health,          *)
(*                      /model/info and extract_features                   *)
(*                                                                         *)
(* Four specifications share the variables below:                          *)
(*   SpecLoader  - load_model_from_folder over every directory content     *)
(*   SpecPre     - preprocess_input over small input matrices              *)
(*   SpecThreat  - predict_threat over feature maps and model behaviours   *)
(*   Spec        - the HTTP service: start-up, model load, the handlers    *)
(***************************************************************************)
EXTENDS Integers, Sequences, FiniteSets, TLC

VARIABLES
    dir,        \* loader: file name -> content of the probed folder
    keras,      \* loader: the module-level name `keras` ("None" if import failed)
    loaded,     \* loader: outcome of load_model_from_folder
    X,          \* preprocessor: the input matrix (sequence of rows)
    scaler,     \* preprocessor: the scaler argument ("None" or a scaler)
    pre,        \* preprocessor: outcome of preprocess_input
    features,   \* predict_threat: the feature map
    mlModel,    \* predict_threat: the model argument
    cwdScaler,  \* content of ./scaler.joblib in the working directory
    decision,   \* predict_threat: outcome (raised error or Decision Record)
    pc,         \* service: "start", "serving" or "exited"
    model,      \* service: the process-wide global `model`
    modelPkl,   \* service: content of ./model.pkl
    testData,   \* service: content of ./test_data.json
    request,    \* service: the last request handled
    response    \* service: the response given to it

vars == <<dir, keras, loaded, X, scaler, pre, features, mlModel, cwdScaler,
          decision, pc, model, modelPkl, testData, request, response>>

loaderVars == <<dir, keras, loaded>>
preVars == <<X, scaler, pre>>
threatVars == <<features, mlModel, decision>>
svcVars == <<pc, model, modelPkl, testData, request, response>>

Range(seq) == {seq[i] : i \in 1..Len(seq)}

\* Python's None
None == [none |-> TRUE]

\* Outcomes carry raised = NoError, or the name of the exception that propagated
NoError == "none"

(***************************************************************************)
(* Numbers.  A finite number is a record [m, e] standing for m * 2^e, kept *)
(* in canonical form (m odd, or m = 0 and e = 0); the non-finite values    *)
(* are NaN, PosInf and NegInf.                                             *)
(***************************************************************************)
NaN == [nf |-> "nan"]
PosInf == [nf |-> "inf"]
NegInf == [nf |-> "-inf"]
NonFinite == {NaN, PosInf, NegInf}

\* np.isinf
IsInf(v) == v \in {PosInf, NegInf}

\* The number of trailing zero bits of n # 0 (mantissas stay below 2^30)
TrailingZeros(n) ==
    CHOOSE k \in 0..30 : n % (2^k) = 0 /\ n % (2^(k + 1)) # 0

Canon(v) ==
    IF v.m = 0 THEN [m |-> 0, e |-> 0]
    ELSE [m |-> v.m \div (2^TrailingZeros(v.m)), e |-> v.e + TrailingZeros(v.m)]

Num(m, e) == Canon([m |-> m, e |-> e])

Zero == Num(0, 0)

Pow2(k) == 2^k

\* The number of bits of n >= 0
BitLen(n) == CHOOSE k \in 0..30 : n < 2^k /\ (k = 0 \/ 2^(k - 1) <= n)

Abs(n) == IF n < 0 THEN -n ELSE n

\* float32: 24 significant bits, finite values below 2^128
MantBits == 24
MaxExp == 128

\* Bits dropped from the mantissa a > 0 to fit MantBits bits
Shift(a) == IF BitLen(a) > MantBits THEN BitLen(a) - MantBits ELSE 0

\* a / 2^s rounded to nearest, ties to even
RoundedMantissa(a, s) ==
    LET q0 == a \div Pow2(s)
        r  == a % Pow2(s)
    IN  IF s > 0 /\ (2 * r > Pow2(s) \/ (2 * r = Pow2(s) /\ q0 % 2 = 1))
        THEN q0 + 1 ELSE q0

\* The float32 of sign, mantissa q and exponent e: infinite from 2^MaxExp on
Pack(negative, q, e) ==
    IF BitLen(q) + e > MaxExp
    THEN (IF negative THEN NegInf ELSE PosInf)
    ELSE Num(IF negative THEN -q ELSE q, e)

\* Conversion of a number to dtype float32 (round to nearest, ties to even;
\* overflow to +/-inf).  Inputs stay within the normal exponent range.
ToFloat32(v) ==
    IF v \in NonFinite THEN v
    ELSE IF v.m = 0 THEN Zero
    ELSE Pack(v.m < 0,
              RoundedMantissa(Abs(v.m), Shift(Abs(v.m))),
              v.e + Shift(Abs(v.m)))

Float32Row(row) == [i \in 1..Len(row) |-> ToFloat32(row[i])]

\* np.array(X, dtype='float32') / X.values.astype('float32')
Float32Matrix(M) == [i \in 1..Len(M) |-> Float32Row(M[i])]

(***************************************************************************)
(* Scalers.  A scaler is a fitted per-feature transform; here the feature  *)
(* scale is 2^exp and the mean is 0.  rejectsEmpty tells whether transform *)
(* raises on a matrix with no rows (scikit-learn's input validation does). *)
(***************************************************************************)
ScaleValue(v, sc) ==
    IF v \in NonFinite THEN v ELSE Num(v.m, v.e - sc.exp)

ScalerTransform(M, sc) ==
    [i \in 1..Len(M) |-> [j \in 1..Len(M[i]) |-> ScaleValue(M[i][j], sc)]]

Scalers == {[exp |-> 1, rejectsEmpty |-> TRUE], [exp |-> 1, rejectsEmpty |-> FALSE]}

(***************************************************************************)
(* preprocess_input                                                        *)
(***************************************************************************)
\* Variant: a filter on ~np.isfinite, which also catches NaN
RowHasNonFinite(row) == \E j \in 1..Len(row) : row[j] \in NonFinite

\* np.isinf(X).any(axis=1) for one row
RowHasInf(row) == \E j \in 1..Len(row) : IsInf(row[j])

\* finite_mask = ~np.isinf(X).any(axis=1)
FiniteMask(M) == [i \in 1..Len(M) |-> ~RowHasInf(M[i])]

\* X[finite_mask]: the rows whose mask entry is True, in their order
MaskSelect(M, mask) ==
    LET keep == {i \in 1..Len(M) : mask[i]}
    IN  [k \in 1..Cardinality(keep) |->
            M[CHOOSE i \in keep : Cardinality({j \in keep : j < i}) = k - 1]]

\* np.sum(~finite_mask)
CountFalse(mask) == Cardinality({i \in 1..Len(mask) : ~mask[i]})

\* Lines 30-34 on the float32 matrix A: the rows kept and the warning
DropInfinite(A) ==
    IF \A i \in 1..Len(A) : FiniteMask(A)[i]
    THEN [out |-> A, warning |-> [printed |-> FALSE, count |-> 0]]
    ELSE [out     |-> MaskSelect(A, FiniteMask(A)),
          warning |-> [printed |-> TRUE, count |-> CountFalse(FiniteMask(A))]]

\* Lines 36-39 on the outcome d of the filter
ScaleKept(d, sc) ==
    IF sc = None
    THEN [raised |-> NoError, out |-> d.out, warning |-> d.warning]
    ELSE IF Len(d.out) = 0 /\ sc.rejectsEmpty
    THEN [raised |-> "ValueError", out |-> <<>>, warning |-> d.warning]
    ELSE [raised |-> NoError, out |-> ScalerTransform(d.out, sc),
          warning |-> d.warning]

PreprocessInput(M, sc) == ScaleKept(DropInfinite(Float32Matrix(M)), sc)

(***************************************************************************)
(* Files.  A file is absent, present but not deserializable, or present    *)
(* and holding a serialized object (which may be Python's None).           *)
(***************************************************************************)
Absent == [file |-> "absent"]
Corrupt == [file |-> "corrupt"]
Holding(obj) == [file |-> "ok", obj |-> obj]

\* os.path.exists
Exists(content) == content # Absent

\* joblib.load / pickle.load / keras.models.load_model of an existing file
Deserialize(content) ==
    IF content = Corrupt
    THEN [raised |-> "DeserializationError", value |-> None]
    ELSE [raised |-> NoError, value |-> content.obj]

(***************************************************************************)
(* load_model_from_folder                                                  *)
(***************************************************************************)
h5_candidates == <<"model.h5", "keras_model.h5">>
\* Variant: random_forest_model.joblib is probed before model.pkl
skl_candidates_forest_first == <<"random_forest_model.joblib", "model.pkl", "model.joblib">>

skl_candidates == <<"model.pkl", "random_forest_model.joblib", "model.joblib">>
CompanionFiles == {"scaler.joblib", "label_encoder.joblib"}

FolderFiles == Range(h5_candidates) \cup Range(skl_candidates) \cup CompanionFiles

\* The object a loadable file of the folder holds is named after the file
ObjectOf(f) == [from |-> f]

\* Index of the first candidate that exists in folder d, 0 if none does
FirstExisting(d, cands) ==
    LET found == {i \in 1..Len(cands) : Exists(d[cands[i]])}
    IN  IF found = {} THEN 0
        ELSE CHOOSE i \in found : \A j \in found : i <= j

\* context as initialised: framework is the string "None" until a model loads
EmptyContext == [scaler |-> None, label_encoder |-> None, framework |-> "None"]

LoadFailure(exc) == [raised |-> exc, model |-> None, context |-> EmptyContext]

\* The optional scaler / label-encoder probe that follows a model load
LoadCompanions(d, mdl, framework) ==
    LET sc == IF Exists(d["scaler.joblib"])
              THEN Deserialize(d["scaler.joblib"])
              ELSE [raised |-> NoError, value |-> None]
        le == IF Exists(d["label_encoder.joblib"])
              THEN Deserialize(d["label_encoder.joblib"])
              ELSE [raised |-> NoError, value |-> None]
    IN  IF sc.raised # NoError THEN LoadFailure(sc.raised)
        ELSE IF le.raised # NoError THEN LoadFailure(le.raised)
        ELSE [raised  |-> NoError,
              model   |-> mdl,
              context |-> [scaler |-> sc.value, label_encoder |-> le.value,
                           framework |-> framework]]

\* Variant: a candidate that fails to load is treated like no candidate
LoadSklearnSwallow(d) ==
    LET i == FirstExisting(d, skl_candidates)
        r == IF i = 0 \/ d[skl_candidates[i]] = Corrupt
             THEN [raised |-> NoError, value |-> None]
             ELSE Deserialize(d[skl_candidates[i]])
    IN  IF r.value = None THEN LoadFailure("FileNotFoundError")
        ELSE LoadCompanions(d, r.value, "scikit-learn")

\* The scikit-learn branch: the first existing candidate is loaded, and a
\* model object of None (no candidate, or a file holding None) is an error
LoadSklearn(d) ==
    LET i == FirstExisting(d, skl_candidates)
        r == IF i = 0 THEN [raised |-> NoError, value |-> None]
             ELSE Deserialize(d[skl_candidates[i]])
    IN  IF r.raised # NoError THEN LoadFailure(r.raised)
        ELSE IF r.value = None THEN LoadFailure("FileNotFoundError")
        ELSE LoadCompanions(d, r.value, "scikit-learn")

\* Variant: without the runtime, the .h5 file is skipped for the scikit-learn files
LoadKerasFallback(d, k, i) ==
    LET r == Deserialize(d[h5_candidates[i]])
    IN  IF k = None THEN LoadSklearn(d)
        ELSE IF r.raised # NoError THEN LoadFailure(r.raised)
        ELSE LoadCompanions(d, r.value, "tensorflow")

\* The Keras branch for the first existing .h5 candidate
LoadKeras(d, k, i) ==
    LET r == Deserialize(d[h5_candidates[i]])
    IN  IF k = None THEN LoadFailure("RuntimeError")
        ELSE IF r.raised # NoError THEN LoadFailure(r.raised)
        ELSE LoadCompanions(d, r.value, "tensorflow")

LoadModelFromFolder(d, k) ==
    LET i == FirstExisting(d, h5_candidates)
    IN  IF i # 0 THEN LoadKeras(d, k, i) ELSE LoadSklearn(d)
(***************************************************************************)
(* Models.  A model is None or an object probed with hasattr for its       *)
(* capabilities predict_proba and predict.  What a capability returns for  *)
(* a matrix is described by a template per kind of row ("lo": the first    *)
(* feature is zero, "hi": it is not):                                      *)
(*   kind "raise"   - the call raises                                      *)
(*   kind "scalar"  - a Python number vals[1]                              *)
(*   kind "list"    - a Python list of one entry per row                   *)
(*   kind "ndarray" - a numpy array of one entry per row                   *)
(* cols = 0 gives a 1-D result of shape (n,) whose entries are vals[1];    *)
(* cols = k > 0 a 2-D result of shape (n, k) whose rows are vals.          *)
(* A matrix with no rows is answered by the "lo" template with n = 0.      *)
(***************************************************************************)
RowKeys == {"lo", "hi"}

RowKey(M) ==
    IF Len(M) = 0 THEN "lo"
    ELSE IF M[1][1] = Zero THEN "lo" ELSE "hi"

Raises == [kind |-> "raise", cols |-> 0, vals |-> <<>>]

\* What a capability with template function tf returns for matrix M
CallResult(tf, M) ==
    LET t == tf[RowKey(M)]
    IN  [kind |-> t.kind, cols |-> t.cols,
         rows |-> IF t.kind \in {"list", "ndarray"}
                  THEN [i \in 1..Len(M) |-> t.vals]
                  ELSE <<t.vals>>]

\* model.predict_proba(X); hasattr(model, 'predict_proba') is m.hasProba
HasProba(m) == m # None /\ m.hasProba

HasPredict(m) == m # None /\ m.hasPredict

PredictProba(m, M) == CallResult(m.proba, M)

\* model.predict(X): AttributeError when the attribute is missing
Predict(m, M) ==
    IF HasPredict(m) THEN CallResult(m.predict, M)
    ELSE [kind |-> "raise", cols |-> 0, rows |-> <<>>]

\* The entries of an array in row-major order (rows of equal length)
Flatten(rows) ==
    IF Len(rows) = 0 THEN <<>>
    ELSE LET c == Len(rows[1])
         IN  [i \in 1..(Len(rows) * c) |-> rows[((i - 1) \div c) + 1][((i - 1) % c) + 1]]

\* np.max of a non-empty sequence
SeqMax(s) == CHOOSE x \in Range(s) : \A y \in Range(s) : x >= y

\* The sum of a sequence
SeqSum(s) ==
    LET partial[i \in 0..Len(s)] == IF i = 0 THEN 0 ELSE partial[i - 1] + s[i]
    IN  partial[Len(s)]

\* np.argmax of one row: 0-based index of the first maximum
ArgMax(row) == (CHOOSE i \in 1..Len(row) :
                   /\ row[i] = SeqMax(row)
                   /\ \A j \in 1..(i - 1) : row[j] # SeqMax(row)) - 1

\* Greatest common divisor of a >= 0 and b > 0
Gcd(a, b) == CHOOSE g \in 1..b : /\ a % g = 0 /\ b % g = 0
                                /\ \A h \in (g + 1)..b : a % h # 0 \/ b % h # 0

\* Confidence values: a rational num/den in lowest terms, or nan
Rat(n, d) == LET g == Gcd(Abs(n), d) IN [num |-> n \div g, den |-> d \div g]
ConfNaN == [nan |-> TRUE]
DefaultConf == Rat(1, 2)
(***************************************************************************)
(* predict_threat                                                          *)
(***************************************************************************)
FeatureOrder == <<"packet_count", "byte_count", "duration", "packets_per_second",
                  "bytes_per_second", "avg_packet_size", "protocol_num",
                  "src_port", "dst_port">>

\* dict.get(key, default)
Get(d, key, default) == IF key \in DOMAIN d THEN d[key] ELSE default

\* A value that is not a number (a string where a number is expected)
BadValue == [str |-> "ten"]

IsNumber(v) == v # BadValue

\* Whether building the float32 row raises (a non-numeric field)
RowIsNumeric(f) ==
    \A i \in 1..Len(FeatureOrder) : IsNumber(Get(f, FeatureOrder[i], Zero))

\* np.array([[features.get(...), ...]], dtype='float32')
FeatureValues(f) ==
    <<Float32Row([i \in 1..Len(FeatureOrder) |-> Get(f, FeatureOrder[i], Zero)])>>

\* joblib.load('scaler.joblib') if os.path.exists('scaler.joblib') else None
DefaultScaler(scFile) ==
    IF Exists(scFile) THEN Deserialize(scFile)
    ELSE [raised |-> NoError, value |-> None]

\* Confidence from predict_proba's result r
ConfFromProba(r) ==
    LET flat  == Flatten(r.rows)
        \* a list becomes np.array(list); an empty list has shape (0,)
        ndim  == IF r.cols = 0 \/ (r.kind = "list" /\ Len(r.rows) = 0)
                 THEN 1 ELSE 2
    IN  IF r.kind = "raise" THEN [raised |-> "ModelError"]
        ELSE IF r.kind = "scalar" THEN [raised |-> "AttributeError"]
        ELSE IF ndim = 2 /\ r.cols > 1
        THEN (IF Len(flat) = 0 THEN [raised |-> "ValueError"]
              ELSE [raised |-> NoError, conf |-> Rat(SeqMax(flat), 1)])
        ELSE (IF Len(flat) = 0 THEN [raised |-> NoError, conf |-> ConfNaN]
              ELSE [raised |-> NoError, conf |-> Rat(SeqSum(flat), Len(flat))])

\* Confidence from predict's result r, inside try/except
ConfFromPredict(r) ==
    IF r.kind = "ndarray" /\ Len(Flatten(r.rows)) > 0
    THEN Rat(SeqMax(Flatten(r.rows)), 1)
    ELSE DefaultConf

ConfidenceStep(m, M) ==
    IF HasProba(m) THEN ConfFromProba(PredictProba(m, M))
    ELSE [raised |-> NoError, conf |-> ConfFromPredict(Predict(m, M))]

IntPred(v) == [kind |-> "num", v |-> v]

\* np.argmax(pred, axis=1) when pred.ndim > 1, else pred itself, as a 1-D array
ClassArray(r) ==
    IF r.cols > 0 THEN [i \in 1..Len(r.rows) |-> ArgMax(r.rows[i])]
    ELSE Flatten(r.rows)

\* The class from predict's result r, inside try/except
ClassOf(r) ==
    IF r.kind = "raise" THEN IntPred(0)
    ELSE IF r.kind = "scalar" THEN IntPred(r.rows[1][1])
    ELSE IF r.kind = "list" THEN [kind |-> "list", v |-> 0]
    ELSE IF Len(ClassArray(r)) = 0 THEN IntPred(0)
    ELSE IntPred(ClassArray(r)[1])

ClassStep(m, M) == ClassOf(Predict(m, M))

\* Variant: the label is taken from any positive class, the flag from class 1
DecisionRecordAnyPositive(pred, conf) ==
    LET is_malicious == (pred.kind = "num" /\ pred.v = 1)
        positive     == (pred.kind = "num" /\ pred.v >= 1)
    IN  [raised         |-> NoError,
         prediction     |-> IF positive THEN "malicious" ELSE "benign",
         confidence     |-> conf,
         is_malicious   |-> is_malicious,
         attack_type    |-> IF is_malicious THEN "anomaly" ELSE "benign",
         inference_time |-> 0]

DecisionRecord(pred, conf) ==
    LET is_malicious == (pred.kind = "num" /\ pred.v = 1)
    IN  [raised         |-> NoError,
         prediction     |-> IF is_malicious THEN "malicious" ELSE "benign",
         confidence     |-> conf,
         is_malicious   |-> is_malicious,
         attack_type    |-> IF is_malicious THEN "anomaly" ELSE "benign",
         inference_time |-> 0]

\* Lines 194-212, after the confidence step gave c on matrix M
ThreatAfterConfidence(m, M, c) ==
    IF c.raised # NoError THEN [raised |-> c.raised]
    ELSE DecisionRecord(ClassStep(m, M), c.conf)

\* Lines 177-212, after preprocess_input gave p
ThreatAfterPreprocess(m, p) ==
    IF p.raised # NoError THEN [raised |-> p.raised]
    ELSE ThreatAfterConfidence(m, p.out, ConfidenceStep(m, p.out))

\* Lines 175-212, after the default scaler load gave sc
ThreatAfterScaler(f, m, sc) ==
    IF sc.raised # NoError THEN [raised |-> sc.raised]
    ELSE ThreatAfterPreprocess(m, PreprocessInput(FeatureValues(f), sc.value))

PredictThreat(f, m, scFile) ==
    IF ~RowIsNumeric(f) THEN [raised |-> "ValueError"]
    ELSE ThreatAfterScaler(f, m, DefaultScaler(scFile))

(***************************************************************************)
(* ml_service: extract_features                                            *)
(***************************************************************************)
\* v > 0 for a finite number
Positive(v) == v.m > 0

\* a / b in floating point, exact for the divisors used here (powers of two)
Div(a, b) == Num(a.m * b.m, a.e - b.e)

Protocol(name) == [proto |-> name]

\* protocol_map.get(features['protocol'], 0)
ProtocolNum(p) ==
    IF p = Protocol("TCP") THEN Num(6, 0)
    ELSE IF p = Protocol("UDP") THEN Num(17, 0)
    ELSE IF p = Protocol("ICMP") THEN Num(1, 0)
    ELSE Zero

\* A JSON body that is a non-empty list instead of an object: it has no .get
NotADict == [jsonlist |-> TRUE]

ExtractFeatures(flow_data) ==
    LET packet_count == Get(flow_data, "packet_count", Zero)
        byte_count   == Get(flow_data, "byte_count", Zero)
        duration     == Get(flow_data, "duration_seconds", Zero)
        protocol     == Get(flow_data, "protocol", Protocol("TCP"))
        hasRate      == Positive(duration)
        hasSize      == Positive(packet_count)
    IN  IF flow_data = NotADict THEN [raised |-> "AttributeError"]
        ELSE IF ~IsNumber(duration) \/ ~IsNumber(packet_count)
        THEN [raised |-> "TypeError"]
        ELSE IF (hasRate \/ hasSize) /\ ~IsNumber(byte_count)
        THEN [raised |-> "TypeError"]
        ELSE [raised |-> NoError,
              features |->
                [k \in {"packet_count", "byte_count", "duration", "protocol",
                        "src_port", "dst_port", "packets_per_second",
                        "bytes_per_second", "avg_packet_size", "protocol_num"} |->
                   CASE k = "packet_count" -> packet_count
                     [] k = "byte_count" -> byte_count
                     [] k = "duration" -> duration
                     [] k = "protocol" -> protocol
                     [] k = "src_port" -> Get(flow_data, "source_port", Zero)
                     [] k = "dst_port" -> Get(flow_data, "destination_port", Zero)
                     [] k = "packets_per_second" ->
                            IF hasRate THEN Div(packet_count, duration) ELSE Zero
                     [] k = "bytes_per_second" ->
                            IF hasRate THEN Div(byte_count, duration) ELSE Zero
                     [] k = "avg_packet_size" ->
                            IF hasSize THEN Div(byte_count, packet_count) ELSE Zero
                     [] k = "protocol_num" -> ProtocolNum(protocol)]]
(***************************************************************************)
(* ml_service: the handlers.  A response is [code, body]; the timestamp    *)
(* field of the bodies is left out.                                        *)
(***************************************************************************)
\* `not data` for a parsed JSON body: None, {} and [] are falsy
EmptyBody == <<>>

Falsy(data) == data = EmptyBody

ErrorResponse(code, msg) == [code |-> code, body |-> [error |-> msg]]

\* result = inference.predict_threat(flow_features, model), given the
\* outcome ef of extract_features
ThreatOfFeatures(ef, mdl, scFile) ==
    IF ef.raised # NoError THEN [raised |-> ef.raised]
    ELSE PredictThreat(ef.features, mdl, scFile)

\* flow_features = extract_features(flow_data)
\* result = inference.predict_threat(flow_features, model)
PredictFlow(flow_data, mdl, scFile) ==
    ThreatOfFeatures(ExtractFeatures(flow_data), mdl, scFile)

\* The response of /predict for the outcome of the two calls
PredictResponse(result) ==
    IF result.raised # NoError THEN ErrorResponse(500, "Prediction error")
    ELSE [code |-> 200,
          body |-> [prediction     |-> result.prediction,
                    confidence     |-> result.confidence,
                    is_malicious   |-> result.is_malicious,
                    attack_type    |-> result.attack_type,
                    inference_time |-> result.inference_time]]

\* POST /predict
PredictHandler(data, mdl, scFile) ==
    IF Falsy(data) THEN ErrorResponse(400, "No input data provided")
    ELSE PredictResponse(PredictFlow(data, mdl, scFile))

\* predictions.append({...}) for one flow and its result
BatchEntry(flow, result) ==
    [flow_id      |-> Get(flow, "flow_id", [id |-> "unknown"]),
     prediction   |-> result.prediction,
     confidence   |-> result.confidence,
     is_malicious |-> result.is_malicious,
     attack_type  |-> result.attack_type]

\* sum(1 for p in predictions if p['is_malicious'])
MaliciousCount(predictions) ==
    Cardinality({i \in 1..Len(predictions) : predictions[i].is_malicious})

\* The response for the finished list of predictions
BatchBody(predictions) ==
    [predictions     |-> predictions,
     total_flows     |-> Len(predictions),
     malicious_count |-> MaliciousCount(predictions)]

\* Variant: a flow whose processing raises is skipped and the rest is returned
BatchResponseSkipFailed(flows, results) ==
    LET ok == [i \in 1..Len(flows) |-> results[i].raised = NoError]
    IN  [code |-> 200,
         body |-> BatchBody([k \in 1..(Len(flows) - CountFalse(ok)) |->
                     BatchEntry(MaskSelect(flows, ok)[k], MaskSelect(results, ok)[k])])]

\* The for loop over flows, results[i] being the outcome of the two calls
\* for flows[i]: an exception in any iteration leaves the loop for the
\* except clause, else every flow has appended its entry, in order
BatchResponse(flows, results) ==
    IF \E i \in 1..Len(flows) : results[i].raised # NoError
    THEN ErrorResponse(500, "Batch prediction error")
    ELSE [code |-> 200,
          body |-> BatchBody([i \in 1..Len(flows) |-> BatchEntry(flows[i], results[i])])]

\* POST /predict/batch
PredictBatchHandler(data, mdl, scFile) ==
    IF Falsy(data) \/ "flows" \notin DOMAIN data
    THEN ErrorResponse(400, "No flows data provided")
    ELSE BatchResponse(data["flows"],
                       [i \in 1..Len(data["flows"]) |->
                           PredictFlow(data["flows"][i], mdl, scFile)])

\* The response of /test for the parsed test data and the outcome of the calls
TestResponse(test_data, result) ==
    IF result.raised # NoError
    THEN [code |-> 500,
          body |-> [error |-> "Test prediction failed", status |-> "failed"]]
    ELSE [code |-> 200,
          body |-> [test_input        |-> test_data,
                    prediction_result |-> result,
                    status            |-> "success"]]

\* GET /test
TestHandler(testFile, mdl, scFile) ==
    IF ~Exists(testFile) \/ Deserialize(testFile).raised # NoError
    THEN TestResponse(None, [raised |-> "FileError"])
    ELSE TestResponse(Deserialize(testFile).value,
                      PredictFlow(Deserialize(testFile).value, mdl, scFile))

\* GET /health
HealthHandler(mdl) ==
    [code |-> 200, body |-> [status |-> "healthy", model_loaded |-> mdl # None]]

\* GET /model/info
ModelInfoHandler(mdl) ==
    IF mdl = None THEN ErrorResponse(500, "Model not loaded")
    ELSE [code |-> 200, body |-> [model_loaded |-> TRUE, model_file |-> "model.pkl"]]

\* load_model(): the value of the global afterwards and the returned flag
LoadModelResult(pklFile, old) ==
    LET r == Deserialize(pklFile)
    IN  IF ~Exists(pklFile) \/ r.raised # NoError
        THEN [model |-> old, ok |-> FALSE]
        ELSE [model |-> r.value, ok |-> TRUE]
(***************************************************************************)
(* Bounds and input sets                                                   *)
(***************************************************************************)
MaxRows == 2        \* rows of a matrix given to preprocess_input
MaxPresent == 1     \* keys present in a feature map given to predict_threat
MaxFlows == 2       \* flow records in a batch request

\* Number inputs: 1, 2^24+1 (not a float32), the largest float32,
\* 2^128 - 2^103 (finite, rounds to float32 infinity), nan, +inf, -inf
One == Num(1, 0)
Odd25 == Num(16777217, 0)
MaxFloat32 == Num(16777215, 104)
NearOverflow == Num(33554431, 103)
Huge == Num(1, 128)

PreValues == {One, Odd25, NearOverflow, NaN, PosInf, NegInf}
PreRows == PreValues \X PreValues
Matrices == UNION {[1..n -> PreRows] : n \in 0..MaxRows}

NotCalled == [called |-> FALSE]
Called(result) == [called |-> TRUE, result |-> result]

KerasModule == [module |-> "keras"]

FileStates == {"absent", "corrupt", "null", "object"}

ContentOf(f, st) ==
    CASE st = "absent"  -> Absent
      [] st = "corrupt" -> Corrupt
      [] st = "null"    -> Holding(None)
      [] st = "object"  -> Holding(ObjectOf(f))

\* Every content of the folder; only a scikit-learn model file is taken to
\* hold None (the case load_model_from_folder tests for)
Folders ==
    {[f \in FolderFiles |-> ContentOf(f, st[f])] :
        st \in {t \in [FolderFiles -> FileStates] :
                  \A f \in FolderFiles \ Range(skl_candidates) : t[f] # "null"}}

FeatureInputs == {One, Huge, PosInf}

FeatureMaps ==
    UNION {[K -> FeatureInputs] :
             K \in {S \in SUBSET Range(FeatureOrder) : Cardinality(S) <= MaxPresent}}

ProbaValues == {0, 1}
RawValues == {-1, 0, 1, 2}

Templates(kinds, colsSet, values) ==
    {[kind |-> k, cols |-> c, vals |-> v] :
        k \in kinds, c \in colsSet,
        v \in UNION {[1..n -> values] : n \in 1..2}} 

WellFormed(t) == Len(t.vals) = (IF t.cols = 0 THEN 1 ELSE t.cols)

ProbaTemplates ==
    {Raises} \cup
    {t \in Templates({"scalar", "list", "ndarray"}, 0..2, ProbaValues) :
        /\ WellFormed(t)
        /\ t.kind = "scalar" => t.cols = 0 /\ t.vals = <<1>>
        /\ t.kind = "list" => t.cols # 1}

PredictTemplates ==
    {Raises} \cup
    {t \in Templates({"scalar", "list", "ndarray"}, 0..2, RawValues) :
        /\ WellFormed(t)
        /\ t.kind = "scalar" => t.cols = 0
        /\ t.kind = "list" => t.cols = 0 /\ t.vals = <<1>>}

Uniform(t) == [k \in RowKeys |-> t]

\* Models that answer every row alike
UniformModels ==
    {[hasProba |-> hp, hasPredict |-> hq, proba |-> Uniform(tp), predict |-> Uniform(tq)] :
        hp \in BOOLEAN, hq \in BOOLEAN, tp \in ProbaTemplates, tq \in PredictTemplates}

ThreatModels ==
    {None} \cup {m \in UniformModels :
                   /\ ~m.hasProba => m.proba = Uniform(Raises)
                   /\ ~m.hasPredict => m.predict = Uniform(Raises)}

ScalerFiles == {Absent, Corrupt} \cup {Holding(sc) : sc \in Scalers}

(***************************************************************************)
(* Idle values of the variables a specification does not use               *)
(***************************************************************************)
IdleLoader == dir = <<>> /\ keras = None /\ loaded = NotCalled
IdlePre == X = <<>> /\ scaler = None /\ pre = NotCalled
IdleThreat == features = <<>> /\ mlModel = None /\ decision = NotCalled
IdleService ==
    /\ pc = "idle" /\ model = None /\ modelPkl = Absent /\ testData = Absent
    /\ request = NotCalled /\ response = NotCalled

(***************************************************************************)
(* SpecLoader: load_model_from_folder applied to every folder              *)
(***************************************************************************)
InitLoader ==
    /\ dir \in Folders
    /\ keras \in {None, KerasModule}
    /\ loaded = NotCalled
    /\ IdlePre /\ IdleThreat /\ IdleService /\ cwdScaler = Absent

LoadFolder ==
    /\ loaded = NotCalled
    /\ loaded' = Called(LoadModelFromFolder(dir, keras))
    /\ UNCHANGED <<dir, keras, preVars, threatVars, svcVars, cwdScaler>>

SpecLoader == InitLoader /\ [][LoadFolder]_vars

(***************************************************************************)
(* SpecPre: preprocess_input applied to every small matrix                 *)
(***************************************************************************)
InitPre ==
    /\ X \in Matrices
    /\ scaler \in {None} \cup Scalers
    /\ pre = NotCalled
    /\ IdleLoader /\ IdleThreat /\ IdleService /\ cwdScaler = Absent

Preprocess ==
    /\ pre = NotCalled
    /\ pre' = Called(PreprocessInput(X, scaler))
    /\ UNCHANGED <<X, scaler, loaderVars, threatVars, svcVars, cwdScaler>>

SpecPre == InitPre /\ [][Preprocess]_vars

(***************************************************************************)
(* SpecThreat: predict_threat applied to feature maps and models           *)
(***************************************************************************)
InitThreat ==
    /\ features \in FeatureMaps
    /\ mlModel \in ThreatModels
    /\ cwdScaler \in ScalerFiles
    /\ decision = NotCalled
    /\ IdleLoader /\ IdlePre /\ IdleService

CallPredictThreat ==
    /\ decision = NotCalled
    /\ decision' = Called(PredictThreat(features, mlModel, cwdScaler))
    /\ UNCHANGED <<features, mlModel, cwdScaler, loaderVars, preVars, svcVars>>

SpecThreat == InitThreat /\ [][CallPredictThreat]_vars
(***************************************************************************)
(* Spec: the service.  The module is imported (pc = "start"); then either  *)
(* the script's main block runs initialize_app and app.run, or a host      *)
(* serves the module's `app` object directly.                              *)
(***************************************************************************)
FlowA == [k \in {"flow_id", "packet_count", "byte_count", "duration_seconds", "protocol"} |->
            CASE k = "flow_id" -> [id |-> "a"]
              [] k = "packet_count" -> Num(4, 0)
              [] k = "byte_count" -> Num(1, 10)
              [] k = "duration_seconds" -> Num(2, 0)
              [] k = "protocol" -> Protocol("UDP")]
FlowB == [k \in {"flow_id"} |-> [id |-> "b"]]
FlowNoId == [k \in {"packet_count"} |-> One]
FlowBad == [k \in {"flow_id", "packet_count"} |->
              IF k = "flow_id" THEN [id |-> "c"] ELSE BadValue]
FlowHuge == [k \in {"flow_id", "byte_count"} |->
               IF k = "flow_id" THEN [id |-> "d"] ELSE Huge]

FlowRecords == {FlowA, FlowB, FlowNoId, FlowBad, FlowHuge}

FlowSeqs == UNION {[1..n -> FlowRecords] : n \in 0..MaxFlows}

PredictBodies == {EmptyBody, NotADict} \cup FlowRecords

BatchBodies ==
    {EmptyBody, [k \in {"note"} |-> [id |-> "x"]]}
    \cup {[k \in {"flows"} |-> fs] : fs \in FlowSeqs}

Class0 == [kind |-> "ndarray", cols |-> 0, vals |-> <<0>>]
Class1 == [kind |-> "ndarray", cols |-> 0, vals |-> <<1>>]
TwoClassProba == [kind |-> "ndarray", cols |-> 2, vals |-> <<0, 1>>]

\* Models the service may find in model.pkl: the class and the failure
\* depend on the kind of row
ServiceModels ==
    {[hasProba |-> hp, hasPredict |-> TRUE, proba |-> tp, predict |-> tq] :
        hp \in BOOLEAN,
        tp \in {Uniform(TwoClassProba), [Uniform(TwoClassProba) EXCEPT !["hi"] = Raises]},
        tq \in [RowKeys -> {Class0, Class1, Raises}]}

ModelFiles ==
    {Absent, Corrupt, Holding(None)}
    \cup {Holding(m) : m \in {sm \in ServiceModels :
                               ~sm.hasProba => sm.proba = Uniform(TwoClassProba)}}

Request(route, body) == [called |-> TRUE, route |-> route, body |-> body]

Init ==
    /\ pc = "start"
    /\ model = None
    /\ modelPkl \in ModelFiles
    /\ cwdScaler \in {Absent} \cup {Holding(sc) : sc \in Scalers}
    /\ testData \in {Absent, Holding(FlowA)}
    /\ request = NotCalled
    /\ response = NotCalled
    /\ IdleLoader /\ IdlePre /\ IdleThreat

others == <<loaderVars, preVars, threatVars, cwdScaler, modelPkl, testData>>

\* python ml_service.py: initialize_app(), then app.run()
InitializeApp ==
    /\ pc = "start"
    /\ LET r == LoadModelResult(modelPkl, model)
       IN  /\ model' = r.model
           /\ pc' = IF r.ok THEN "serving" ELSE "exited"
    /\ UNCHANGED <<request, response, others>>

\* A host serves the imported `app`; initialize_app is not run
ServeImported ==
    /\ pc = "start"
    /\ pc' = "serving"
    /\ UNCHANGED <<model, request, response, others>>

\* load_model() called on its own
LoadModel ==
    /\ pc \in {"start", "serving"}
    /\ request = NotCalled
    /\ model' = LoadModelResult(modelPkl, model).model
    /\ UNCHANGED <<pc, request, response, others>>

HandlePredict ==
    /\ pc = "serving"
    /\ request = NotCalled
    /\ \E data \in PredictBodies :
          /\ request' = Request("/predict", data)
          /\ response' = PredictHandler(data, model, cwdScaler)
    /\ UNCHANGED <<pc, model, others>>

HandlePredictBatch ==
    /\ pc = "serving"
    /\ request = NotCalled
    /\ \E data \in BatchBodies :
          /\ request' = Request("/predict/batch", data)
          /\ response' = PredictBatchHandler(data, model, cwdScaler)
    /\ UNCHANGED <<pc, model, others>>

HandleTest ==
    /\ pc = "serving"
    /\ request = NotCalled
    /\ request' = Request("/test", EmptyBody)
    /\ response' = TestHandler(testData, model, cwdScaler)
    /\ UNCHANGED <<pc, model, others>>

HandleHealth ==
    /\ pc = "serving"
    /\ request = NotCalled
    /\ request' = Request("/health", EmptyBody)
    /\ response' = HealthHandler(model)
    /\ UNCHANGED <<pc, model, others>>

HandleModelInfo ==
    /\ pc = "serving"
    /\ request = NotCalled
    /\ request' = Request("/model/info", EmptyBody)
    /\ response' = ModelInfoHandler(model)
    /\ UNCHANGED <<pc, model, others>>

\* The response is returned to the client; the worker is free again
Deliver ==
    /\ request # NotCalled
    /\ request' = NotCalled
    /\ response' = NotCalled
    /\ UNCHANGED <<pc, model, others>>

Next ==
    \/ InitializeApp
    \/ ServeImported
    \/ LoadModel
    \/ HandlePredict
    \/ HandlePredictBatch
    \/ HandleTest
    \/ HandleHealth
    \/ HandleModelInfo
    \/ Deliver

Spec == Init /\ [][Next]_vars
(***************************************************************************)
(* Properties of load_model_from_folder (checked under SpecLoader)         *)
(***************************************************************************)
NeuralFiles == {"model.h5", "keras_model.h5"}
TreeOrder == <<"model.pkl", "random_forest_model.joblib", "model.joblib">>

NeuralPresent == \E f \in NeuralFiles : dir[f] # Absent

\* f is the first file of TreeOrder that exists in the folder
FirstTreeFile(f) ==
    \E i \in 1..Len(TreeOrder) :
        /\ TreeOrder[i] = f
        /\ dir[f] # Absent
        /\ \A j \in 1..(i - 1) : dir[TreeOrder[j]] = Absent

CompanionValue(f) == IF dir[f] = Absent THEN None ELSE ObjectOf(f)

\* C5: whenever model.h5 or keras_model.h5 exists and the neural-network
\* runtime is unavailable, load_model_from_folder fails with the
\* runtime-unavailable error and returns no model, whatever tree-ensemble
\* or companion files are present.
C5_RuntimeUnavailable ==
    (loaded.called /\ keras = None /\ NeuralPresent)
        => /\ loaded.result.raised = "RuntimeError"
           /\ loaded.result.model = None

\* C5 witness: keras_model.h5 and a loadable model.pkl exist, the runtime
\* is missing, and the load failed with the runtime-unavailable error.
C5_Witness ==
    /\ loaded.called /\ keras = None
    /\ dir["model.h5"] = Absent /\ dir["keras_model.h5"] # Absent
    /\ dir["model.pkl"] = Holding(ObjectOf("model.pkl"))
    /\ dir["scaler.joblib"] = Holding(ObjectOf("scaler.joblib"))
    /\ loaded.result.raised = "RuntimeError"

\* C6 as stated: with no neural-network file and at least one loadable
\* tree-ensemble file, the first existing file in the order model.pkl,
\* random_forest_model.joblib, model.joblib is loaded, the framework is
\* scikit-learn, and scaler / label_encoder are set exactly when their
\* files exist.
C6_AnyLoadableFile ==
    (/\ loaded.called /\ ~NeuralPresent
     /\ \E f \in Range(TreeOrder) : dir[f] = Holding(ObjectOf(f)))
        => /\ loaded.result.raised = NoError
           /\ \E f \in Range(TreeOrder) :
                 FirstTreeFile(f) /\ loaded.result.model = ObjectOf(f)
           /\ loaded.result.context.framework = "scikit-learn"
           /\ (loaded.result.context.scaler # None) = (dir["scaler.joblib"] # Absent)
           /\ (loaded.result.context.label_encoder # None)
                 = (dir["label_encoder.joblib"] # Absent)

\* C6 amended: with no neural-network file, when the first existing
\* tree-ensemble file deserializes to a model and every existing companion
\* file deserializes, that file's model is returned, the framework is
\* scikit-learn and scaler / label_encoder are the loaded companions exactly
\* when their files exist (None otherwise); when the first existing file or
\* an existing companion does not deserialize, the load fails with the
\* deserialization error and no later candidate is tried.
C6_FirstExistingFile ==
    (loaded.called /\ ~NeuralPresent)
        => \A f \in Range(TreeOrder) :
              FirstTreeFile(f) =>
                /\ (/\ dir[f] = Holding(ObjectOf(f))
                    /\ \A c \in CompanionFiles : dir[c] # Corrupt)
                      => /\ loaded.result.raised = NoError
                         /\ loaded.result.model = ObjectOf(f)
                         /\ loaded.result.context =
                               [scaler        |-> CompanionValue("scaler.joblib"),
                                label_encoder |-> CompanionValue("label_encoder.joblib"),
                                framework     |-> "scikit-learn"]
                /\ (\/ dir[f] = Corrupt
                    \/ /\ dir[f] = Holding(ObjectOf(f))
                       /\ \E c \in CompanionFiles : dir[c] = Corrupt)
                      => /\ loaded.result.raised = "DeserializationError"
                         /\ loaded.result.model = None

\* C6 witness: model.pkl is absent, random_forest_model.joblib and
\* model.joblib are loadable, scaler.joblib exists and label_encoder.joblib
\* does not; the forest file was loaded with the scaler.
C6_Witness ==
    /\ loaded.called /\ ~NeuralPresent
    /\ dir["model.pkl"] = Absent
    /\ dir["random_forest_model.joblib"] # Absent /\ dir["model.joblib"] # Absent
    /\ dir["label_encoder.joblib"] = Absent
    /\ loaded.result.raised = NoError
    /\ loaded.result.model = ObjectOf("random_forest_model.joblib")
    /\ loaded.result.context.scaler = ObjectOf("scaler.joblib")
    /\ loaded.result.context.label_encoder = None

ModelFilesOfFolder == NeuralFiles \cup Range(TreeOrder)

\* The file the loader deserializes first does not deserialize
PickedFileCorrupt ==
    \/ /\ keras # None
       /\ \/ dir["model.h5"] = Corrupt
          \/ dir["model.h5"] = Absent /\ dir["keras_model.h5"] = Corrupt
    \/ ~NeuralPresent /\ \E f \in Range(TreeOrder) : FirstTreeFile(f) /\ dir[f] = Corrupt

\* C10: a folder with none of the five model files fails with the
\* "no supported model" error (FileNotFoundError) whether or not companion
\* files are present, and neither a model file that fails to deserialize nor
\* a missing runtime produces that error.
C10_NoSupportedModel ==
    loaded.called =>
        /\ (\A f \in ModelFilesOfFolder : dir[f] = Absent)
              => loaded.result.raised = "FileNotFoundError"
        /\ PickedFileCorrupt
              => loaded.result.raised \notin {NoError, "FileNotFoundError", "RuntimeError"}
        /\ (keras = None /\ NeuralPresent)
              => loaded.result.raised \notin {NoError, "FileNotFoundError"}

\* C10 witness: no model file, but a scaler.joblib that does not even
\* deserialize; the load failed with the "no supported model" error.
C10_Witness ==
    /\ loaded.called
    /\ \A f \in ModelFilesOfFolder : dir[f] = Absent
    /\ dir["scaler.joblib"] = Corrupt
    /\ loaded.result.raised = "FileNotFoundError"
(***************************************************************************)
(* Properties of preprocess_input (checked under SpecPre)                  *)
(***************************************************************************)
InfFree(row) == \A j \in 1..Len(row) : row[j] # PosInf /\ row[j] # NegInf

InfFreeRows(M) == SelectSeq(M, InfFree)

\* C7 as stated: the rows of the input matrix without an infinite field are
\* returned in their order, the warning counts the rows removed, and
\* without a scaler the retained rows are returned unchanged.
C7_InputRowsUnchanged ==
    (pre.called /\ scaler = None)
        => /\ pre.result.raised = NoError
           /\ pre.result.out = InfFreeRows(X)
           /\ pre.result.warning.count = Len(X) - Len(InfFreeRows(X))

\* C7 amended: preprocess_input first coerces the matrix to float32 (a
\* value is rounded to 24 significant bits, and a finite value beyond the
\* float32 range becomes an infinity).  Of the coerced matrix it keeps
\* exactly the rows without +inf / -inf, in their order (rows with NaN but
\* no infinity stay); a warning is printed exactly when a row was removed,
\* and its count is the number of rows removed; without a scaler the kept
\* coerced rows are returned as they are, and with a scaler the result,
\* when the scaler returns one, is the scaler's transform of the kept rows.
C7_Float32RowsKept ==
    pre.called =>
        LET A    == Float32Matrix(X)
            kept == InfFreeRows(A)
        IN  /\ pre.result.warning.count = Len(A) - Len(kept)
            /\ pre.result.warning.printed = (Len(kept) < Len(A))
            /\ scaler = None
                  => pre.result.raised = NoError /\ pre.result.out = kept
            /\ (scaler # None /\ pre.result.raised = NoError)
                  => pre.result.out = ScalerTransform(kept, scaler)

\* C7 witness: of a NaN row and a row whose first value overflows float32,
\* only the NaN row is returned and one removed row is reported.
C7_Witness ==
    /\ pre.called /\ scaler = None
    /\ X = <<<<NaN, One>>, <<NearOverflow, One>>>>
    /\ pre.result.out = <<<<NaN, One>>>>
    /\ pre.result.warning = [printed |-> TRUE, count |-> 1]
(***************************************************************************)
(* Properties of predict_threat (checked under SpecThreat)                 *)
(***************************************************************************)
Returned == decision.called /\ decision.result.raised = NoError

\* C1: every record predict_threat returns has is_malicious true exactly
\* when prediction is "malicious", and prediction is "malicious" or
\* "benign" -- for a model that is None, or whose predict raises or returns
\* a scalar, a 1-D array or a 2-D array.
C1_FlagMatchesLabel ==
    Returned =>
        /\ decision.result.prediction \in {"malicious", "benign"}
        /\ decision.result.is_malicious \in BOOLEAN
        /\ decision.result.is_malicious = (decision.result.prediction = "malicious")

\* C1 witness: predict returned a 2-D array whose row has its maximum in
\* column 1, and the record is flagged and labelled malicious.
C1_Witness ==
    /\ Returned
    /\ mlModel # None /\ mlModel.hasPredict
    /\ mlModel.predict["hi"].kind = "ndarray" /\ mlModel.predict["hi"].cols = 2
    /\ decision.result.is_malicious
    /\ decision.result.prediction = "malicious"

\* C2: the confidence of every record predict_threat returns lies in
\* [0, 1], on the predict_proba path, the predict-only path and the 0.5
\* default.
C2_ConfidenceInUnitInterval ==
    Returned =>
        /\ decision.result.confidence # ConfNaN
        /\ 0 <= decision.result.confidence.num
        /\ decision.result.confidence.num <= decision.result.confidence.den

\* The feature row reaches the model: no scaler.joblib is in the working
\* directory, so neither its load nor its transform can fail
ReachesModel == decision.called /\ cwdScaler = Absent

\* The capability consulted for the confidence raises or is missing
ConfidenceFault ==
    IF HasProba(mlModel)
    THEN \A k \in RowKeys : mlModel.proba[k].kind = "raise"
    ELSE \/ ~HasPredict(mlModel)
         \/ \A k \in RowKeys : mlModel.predict[k].kind = "raise"

\* The capability consulted for the class raises or is missing
ClassFault ==
    \/ ~HasPredict(mlModel)
    \/ \A k \in RowKeys : mlModel.predict[k].kind = "raise"

\* C3: a capability that raises or is missing never makes predict_threat
\* raise: the record is returned with confidence 0.5 for a failed
\* confidence step and class 0 (prediction "benign") for a failed class
\* step.
C3_FaultsAbsorbed ==
    ReachesModel =>
        /\ ConfidenceFault
              => Returned /\ decision.result.confidence = DefaultConf
        /\ ClassFault
              => Returned /\ decision.result.prediction = "benign"

\* The float32 feature row holds an infinity, so preprocess_input drops it
RowDropped == \E k \in DOMAIN features : IsInf(ToFloat32(features[k]))

\* C9: when the only feature row is dropped, predict_threat still returns a
\* record, for models with and without predict_proba.
C9_ZeroRowsStillDecided ==
    (ReachesModel /\ RowDropped) => Returned
(***************************************************************************)
(* Properties of the service (checked under Spec)                          *)
(***************************************************************************)
Asked(route) == request.called /\ request.route = route

\* The response carries a decision: a 200 answer of /predict or /test, or a
\* 200 answer of /predict/batch with at least one prediction entry
IsVerdict ==
    /\ response # NotCalled
    /\ response.code = 200
    /\ \/ Asked("/predict")
       \/ Asked("/test")
       \/ Asked("/predict/batch") /\ Len(response.body.predictions) > 0

\* C4: a request to /predict, /predict/batch or /test is answered with a
\* decision only if the process-wide model has been loaded; while model is
\* None no request gets a verdict.
C4_VerdictOnlyWhenLoaded == IsVerdict => model # None

\* The decision of one flow of the pending request
FlowDecision(flow) == PredictFlow(flow, model, cwdScaler)

\* C8: a successful /predict/batch response for N flows has exactly N
\* entries, the i-th carrying the flow_id and the decision of the i-th flow,
\* total_flows = N and malicious_count = the number of entries flagged
\* is_malicious; when processing any flow raises, the answer is an error
\* and carries no partial list.
C8_BatchInOrder ==
    (Asked("/predict/batch") /\ "flows" \in DOMAIN request.body) =>
        LET flows == request.body["flows"]
            N     == Len(flows)
            body  == response.body
        IN  /\ response.code \in {200, 500}
            /\ response.code = 200 =>
                  /\ Len(body.predictions) = N
                  /\ body.total_flows = N
                  /\ \A i \in 1..N :
                        LET d == FlowDecision(flows[i])
                            e == body.predictions[i]
                        IN  /\ e.flow_id = (IF "flow_id" \in DOMAIN flows[i]
                                            THEN flows[i]["flow_id"]
                                            ELSE [id |-> "unknown"])
                            /\ d.raised = NoError
                            /\ e.prediction = d.prediction
                            /\ e.is_malicious = d.is_malicious
                            /\ e.confidence = d.confidence
                  /\ body.malicious_count
                        = Cardinality({i \in 1..N : body.predictions[i].is_malicious})
            /\ (\E i \in 1..N : FlowDecision(flows[i]).raised # NoError) =>
                  /\ response.code = 500
                  /\ DOMAIN body = {"error"}

\* C8 witness: a batch of FlowA then FlowB answered with two entries in
\* that order, the first malicious and the second benign.
C8_Witness ==
    /\ Asked("/predict/batch")
    /\ request.body = [k \in {"flows"} |-> <<FlowA, FlowB>>]
    /\ response.code = 200
    /\ response.body.total_flows = 2
    /\ response.body.predictions[1].flow_id = [id |-> "a"]
    /\ response.body.predictions[1].is_malicious
    /\ response.body.predictions[2].flow_id = [id |-> "b"]
    /\ ~response.body.predictions[2].is_malicious
    /\ response.body.malicious_count = 1
====
